---- MODULE Spec2Model ----
(***************************************************************************)
(* The e3 pytest plugin (src/src/e3/pytest.py): the per-report hook        *)
(* pytest_runtest_makereport, the session hook pytest_sessionfinish with   *)
(* its exclude-pattern list, and fix_coverage_paths, which rewrites the    *)
(* file identifiers of a coverage database in place.                       *)
(*                                                                         *)
(* File identifiers and directories are sequences of path components, a    *)
(* coverage database is a function from the identifiers it holds to their  *)
(* sets of executed lines, and the directory that holds the databases is   *)
(* the function fs from file names to contents.                            *)
(***************************************************************************)
EXTENDS Integers, Sequences, FiniteSets, TLC

VARIABLES
    fs,           \* the directory of the databases: file name -> content
    fs0,          \* fs as it was before any call of fix_coverage_paths
    args,         \* per invocation: [origin_dir, new_dir, cov_db]
    pc,           \* per invocation: its position in fix_coverage_paths
    paths,        \* per invocation: the PathAliases object (its rules)
    tmp,          \* per invocation: old_cov_file.name
    old,          \* per invocation: old_coverage_data, as read
    err,          \* per invocation: the exception that propagates
    ctx,          \* per invocation: the exception err replaced (__context__)
    phase,        \* the session: off, running, fix, finished, raised
    config,       \* the session's options: [e3, cov_source, e3_cov_rewrite]
    results_dir,  \* what $RESULTS_DIR names: unset, notdir, dir
    rdir,         \* the results directory: file name -> content
    test_errors,  \* the module's global flag
    exitstatus,   \* session.exitstatus
    excluded,     \* the patterns handed to cov.exclude, in order
    os_name,      \* Env().build.os.name, as read by pytest_sessionfinish
    rep,          \* the report the hook handled last
    nreports,     \* how many reports the hook has handled
    error_seen    \* history: a setup/teardown report had outcome "failed"

vars == <<fs, fs0, args, pc, paths, tmp, old, err, ctx, phase, config,
          results_dir, rdir, test_errors, exitstatus, excluded, os_name, rep,
          nreports, error_seen>>

(***************************************************************************)
(* Bounds of the model.                                                    *)
(***************************************************************************)
MaxReports == 2     \* reports handled in one session
MaxFiles == 2       \* identifiers held by an input database
MaxLine == 1        \* line numbers are 1..MaxLine

\* The invocations of fix_coverage_paths that may be in flight.
Procs == {1, 2}
\* Directory prefixes: plain, and one nested under another.
Dirs == { <<"a">>, <<"b">>, <<"a", "b">> }
\* The identifiers an input database may hold.
Ids == { <<"x">>, <<"a", "x">>, <<"b", "x">>, <<"a", "a", "x">>,
         <<"a", "b", "x">>, <<"b", "a", "x">> }
LineSets == SUBSET (1..MaxLine)
DataSets ==
    UNION { [S -> LineSets] : S \in { T \in SUBSET Ids : Cardinality(T) <= MaxFiles } }

CovPaths == {"cov1", "cov2"}
TmpNames == {"tmp1", "tmp2"}
Paths == CovPaths \cup TmpNames

Absent == [kind |-> "absent"]
Empty == [kind |-> "empty"]
Corrupt == [kind |-> "corrupt"]
Db(d) == [kind |-> "db", data |-> d]
NoData == [p \in {} |-> {}]

(***************************************************************************)
(* coverage.files.PathAliases, as fix_coverage_paths uses it: add appends  *)
(* a rule, map rewrites an identifier by the first rule whose pattern,     *)
(* followed by a separator, is a prefix of it.                             *)
(***************************************************************************)
PathAliases_add(aliases, pattern, result) ==
    Append(aliases, [pattern |-> pattern, result |-> result])

\* Mutant: a rule that matches any longer identifier, whatever its prefix.
AliasMatches_anyPrefix(rule, path) == Len(path) > Len(rule.pattern)

AliasMatches(rule, path) ==
    /\ Len(path) > Len(rule.pattern)
    /\ SubSeq(path, 1, Len(rule.pattern)) = rule.pattern

RECURSIVE MapFrom(_, _, _)
MapFrom(aliases, k, path) ==
    IF k > Len(aliases) THEN path
    ELSE IF AliasMatches(aliases[k], path)
         THEN aliases[k].result \o SubSeq(path, Len(aliases[k].pattern) + 1, Len(path))
         ELSE MapFrom(aliases, k + 1, path)

PathAliases_map(aliases, path) == MapFrom(aliases, 1, path)

(***************************************************************************)
(* CoverageData.read and CoverageData.update(other, aliases).  read of a   *)
(* missing or empty file gives an empty database; update folds the files   *)
(* of other into self one by one, each under its mapped identifier, and    *)
(* unites the lines of files that land on the same identifier.             *)
(***************************************************************************)
\* Mutant: a corrupt file read as an empty database.
CoverageData_read_lenient(f, name) ==
    IF f[name].kind = "db" THEN [ok |-> TRUE, data |-> f[name].data]
    ELSE [ok |-> TRUE, data |-> NoData]

CoverageData_read(f, name) ==
    CASE f[name].kind = "db" -> [ok |-> TRUE, data |-> f[name].data]
      [] f[name].kind = "corrupt" -> [ok |-> FALSE, data |-> NoData]
      [] OTHER -> [ok |-> TRUE, data |-> NoData]

\* Mutant: a file that lands on a known identifier replaces its lines.
AddFile_overwrite(acc, path, lines) ==
    [q \in DOMAIN acc \cup {path} |-> IF q = path THEN lines ELSE acc[q]]

AddFile(acc, path, lines) ==
    [q \in DOMAIN acc \cup {path} |->
        IF q = path
        THEN (IF path \in DOMAIN acc THEN acc[path] \cup lines ELSE lines)
        ELSE acc[q]]

RECURSIVE MergeFiles(_, _, _, _)
MergeFiles(acc, other, todo, aliases) ==
    IF todo = {} THEN acc
    ELSE LET p == CHOOSE q \in todo : TRUE
         IN MergeFiles(AddFile(acc, PathAliases_map(aliases, p), other[p]),
                       other, todo \ {p}, aliases)

CoverageData_update(self, other, aliases) ==
    MergeFiles(self, other, DOMAIN other, aliases)

(***************************************************************************)
(* e3.os.fs.mv(source, target): fails when source does not exist or the    *)
(* move is not permitted, and then changes nothing; else target holds what *)
(* source held and source is gone.                                         *)
(***************************************************************************)
mv(f, source, target, denied) ==
    IF f[source].kind = "absent" \/ denied
    THEN [ok |-> FALSE, fs |-> f]
    ELSE [ok |-> TRUE, fs |-> [f EXCEPT ![target] = f[source], ![source] = Absent]]

(***************************************************************************)
(* fix_coverage_paths, one action per statement.                           *)
(***************************************************************************)
\* fix_coverage_paths touches neither the session nor the history.
FixFrame ==
    UNCHANGED <<fs0, phase, config, results_dir, rdir, test_errors, exitstatus,
                excluded, os_name, rep, nreports, error_seen>>

\* paths = PathAliases(); paths.add(origin_dir, new_dir);
\* old_cov_file = NamedTemporaryFile(dir=...): a new file under a name
\* that no file of the directory has.
FixStart(i) ==
    /\ pc[i] = "start"
    /\ \E n \in TmpNames :
          /\ fs[n].kind = "absent"
          /\ fs' = [fs EXCEPT ![n] = Empty]
          /\ tmp' = [tmp EXCEPT ![i] = n]
    /\ paths' = [paths EXCEPT ![i] = PathAliases_add(<<>>, args[i].origin_dir, args[i].new_dir)]
    /\ pc' = [pc EXCEPT ![i] = "close"]
    /\ UNCHANGED <<args, old, err, ctx>>
    /\ FixFrame

\* old_cov_file.close(): the file is deleted by name, the name is kept.
\* Outside the try: a failure propagates at once.
FixClose(i) ==
    /\ pc[i] = "close"
    /\ IF fs[tmp[i]].kind = "absent"
       THEN /\ err' = [err EXCEPT ![i] = "close"]
            /\ pc' = [pc EXCEPT ![i] = "done"]
            /\ fs' = fs
       ELSE /\ fs' = [fs EXCEPT ![tmp[i]] = Absent]
            /\ pc' = [pc EXCEPT ![i] = "mv"]
            /\ err' = err
    /\ UNCHANGED <<args, paths, tmp, old, ctx>>
    /\ FixFrame

\* mv(cov_db, old_cov_file.name)
FixMv(i) ==
    /\ pc[i] = "mv"
    /\ \E denied \in BOOLEAN :
          LET r == mv(fs, args[i].cov_db, tmp[i], denied)
          IN /\ fs' = r.fs
             /\ IF r.ok
                THEN /\ pc' = [pc EXCEPT ![i] = "read"]
                     /\ err' = err
                ELSE /\ pc' = [pc EXCEPT ![i] = "unlink"]
                     /\ err' = [err EXCEPT ![i] = "mv"]
    /\ UNCHANGED <<args, paths, tmp, old, ctx>>
    /\ FixFrame

\* old_coverage_data = CoverageData(old_cov_file.name); old_coverage_data.read()
FixRead(i) ==
    /\ pc[i] = "read"
    /\ LET r == CoverageData_read(fs, tmp[i])
       IN IF r.ok
          THEN /\ old' = [old EXCEPT ![i] = r.data]
               /\ pc' = [pc EXCEPT ![i] = "update"]
               /\ err' = err
          ELSE /\ old' = old
               /\ pc' = [pc EXCEPT ![i] = "unlink"]
               /\ err' = [err EXCEPT ![i] = "parse"]
    /\ UNCHANGED <<fs, args, paths, tmp, ctx>>
    /\ FixFrame

\* new_coverage_data = CoverageData(cov_db);
\* new_coverage_data.update(old_coverage_data, aliases=paths);
\* new_coverage_data.write().  The write may fail part-way.
FixUpdate(i) ==
    /\ pc[i] = "update"
    /\ LET self == CoverageData_read(fs, args[i].cov_db)
       IN IF ~self.ok
          THEN /\ err' = [err EXCEPT ![i] = "parse"]
               /\ fs' = fs
          ELSE \E failed \in BOOLEAN :
                 IF failed
                 THEN /\ err' = [err EXCEPT ![i] = "write"]
                      /\ \E c \in {fs[args[i].cov_db], Corrupt} :
                            fs' = [fs EXCEPT ![args[i].cov_db] = c]
                 ELSE /\ err' = err
                      /\ fs' = [fs EXCEPT ![args[i].cov_db] =
                                   Db(CoverageData_update(self.data, old[i], paths[i]))]
    /\ pc' = [pc EXCEPT ![i] = "unlink"]
    /\ UNCHANGED <<args, paths, tmp, old, ctx>>
    /\ FixFrame

\* finally: os.unlink(old_cov_file.name).  An exception raised here
\* replaces the one in flight, which becomes its context.
\* Mutant: the unlink after the try block, not in a finally clause.
FixUnlinkBody_afterTry(i) ==
    IF err[i] # "none"
    THEN UNCHANGED <<fs, err, ctx>>
    ELSE /\ fs' = [fs EXCEPT ![tmp[i]] = Absent]
         /\ UNCHANGED <<err, ctx>>

FixUnlinkBody(i) ==
    IF fs[tmp[i]].kind = "absent"
    THEN /\ ctx' = [ctx EXCEPT ![i] = err[i]]
         /\ err' = [err EXCEPT ![i] = "unlink"]
         /\ fs' = fs
    ELSE /\ fs' = [fs EXCEPT ![tmp[i]] = Absent]
         /\ UNCHANGED <<err, ctx>>

FixUnlink(i) ==
    /\ pc[i] = "unlink"
    /\ FixUnlinkBody(i)
    /\ pc' = [pc EXCEPT ![i] = "done"]
    /\ UNCHANGED <<args, paths, tmp, old>>
    /\ FixFrame

FixNext ==
    \/ \E i \in Procs : FixStart(i)
    \/ \E i \in Procs : FixClose(i)
    \/ \E i \in Procs : FixMv(i)
    \/ \E i \in Procs : FixRead(i)
    \/ \E i \in Procs : FixUpdate(i)
    \/ \E i \in Procs : FixUnlink(i)

(***************************************************************************)
(* One call of fix_coverage_paths on any database.                         *)
(***************************************************************************)
NoArgs == [origin_dir |-> <<"a">>, new_dir |-> <<"b">>, cov_db |-> "cov2"]
NoReport == [nodeid |-> <<>>, when |-> "none", outcome |-> "none", longreprtext |-> ""]

SessionOff ==
    /\ phase = "off"
    /\ config = [e3 |-> FALSE, cov_source |-> FALSE, e3_cov_rewrite |-> FALSE]
    /\ results_dir = "unset"
    /\ rdir = NoData
    /\ test_errors = FALSE
    /\ exitstatus = 0
    /\ excluded = <<>>
    /\ os_name = "none"
    /\ rep = NoReport
    /\ nreports = 0
    /\ error_seen = FALSE

FixLocals ==
    /\ paths = [i \in Procs |-> <<>>]
    /\ tmp = [i \in Procs |-> "none"]
    /\ old = [i \in Procs |-> NoData]
    /\ err = [i \in Procs |-> "none"]
    /\ ctx = [i \in Procs |-> "none"]

InitFix ==
    /\ \E o \in Dirs, n \in Dirs :
          args = [i \in Procs |->
                    IF i = 1 THEN [origin_dir |-> o, new_dir |-> n, cov_db |-> "cov1"]
                    ELSE NoArgs]
    /\ \E c \in {Absent, Corrupt} \cup { Db(d) : d \in DataSets } :
          fs = [p \in Paths |-> IF p = "cov1" THEN c ELSE Absent]
    /\ fs0 = fs
    /\ pc = [i \in Procs |-> IF i = 1 THEN "start" ELSE "idle"]
    /\ FixLocals
    /\ SessionOff

SpecFix == InitFix /\ [][FixNext]_vars

(***************************************************************************)
(* pytest_runtest_makereport.  Node identifiers, outcomes and file         *)
(* contents are sequences of characters.                                   *)
(***************************************************************************)
NodeIds == { <<"d", "/", "t", ":", ":", "f">>, <<"t", ":", ":", "g">> }
Passed == <<"p", "a", "s", "s", "e", "d">>
Failed == <<"f", "a", "i", "l", "e", "d">>
Skipped == <<"s", "k", "i", "p", "p", "e", "d">>
Outcomes == {Passed, Failed, Skipped}
Whens == {"setup", "call", "teardown"}
LongTexts == {"", "E assert"}
Reports == [nodeid : NodeIds, when : Whens, outcome : Outcomes, longreprtext : LongTexts]

\* str.replace(from, to): every occurrence, left to right, not overlapping.
RECURSIVE Replace(_, _, _)
Replace(s, from, to) ==
    IF Len(s) < Len(from) THEN s
    ELSE IF SubSeq(s, 1, Len(from)) = from
         THEN to \o Replace(SubSeq(s, Len(from) + 1, Len(s)), from, to)
         ELSE <<Head(s)>> \o Replace(Tail(s), from, to)

\* str.upper(), on the letters of the outcomes.
UpperChar(c) ==
    CASE c = "a" -> "A" [] c = "d" -> "D" [] c = "e" -> "E" [] c = "f" -> "F"
      [] c = "i" -> "I" [] c = "k" -> "K" [] c = "l" -> "L" [] c = "p" -> "P"
      [] c = "s" -> "S" [] OTHER -> c
Upper(s) == [k \in 1..Len(s) |-> UpperChar(s[k])]

\* test_name = rep.nodeid.replace("/", ".").replace("::", "--")
TestName(nodeid) == Replace(Replace(nodeid, <<"/">>, <<".">>), <<":", ":">>, <<"-", "-">>)

ResultsFile == <<"r", "e", "s", "u", "l", "t", "s">>
DiffFile(test_name) == test_name \o <<".", "d", "i", "f", "f">>
ResultLine(r) == TestName(r.nodeid) \o <<":">> \o Upper(r.outcome) \o <<"\n">>

\* open(path, "w").write(text) and open(path, "a").write(text)
WriteFile(d, name, text) ==
    [n \in DOMAIN d \cup {name} |-> IF n = name THEN text ELSE d[n]]
AppendFile(d, name, text) ==
    [n \in DOMAIN d \cup {name} |->
        IF n = name THEN (IF name \in DOMAIN d THEN d[name] \o text ELSE text)
        ELSE d[n]]

\* Mutant: the results file opened in mode "w".
CallFiles_truncate(d, r) ==
    LET d1 == IF r.longreprtext # ""
              THEN WriteFile(d, DiffFile(TestName(r.nodeid)), r.longreprtext)
              ELSE d
    IN WriteFile(d1, ResultsFile, ResultLine(r))

\* The files a "call" report writes.
CallFiles(d, r) ==
    LET d1 == IF r.longreprtext # ""
              THEN WriteFile(d, DiffFile(TestName(r.nodeid)), r.longreprtext)
              ELSE d
    IN AppendFile(d1, ResultsFile, ResultLine(r))

MakeReport(r) ==
    /\ phase = "running"
    /\ nreports < MaxReports
    /\ rep' = r
    /\ nreports' = nreports + 1
    /\ error_seen' = (error_seen \/ (r.when # "call" /\ r.outcome = Failed))
    /\ IF results_dir # "dir"
       THEN UNCHANGED <<rdir, test_errors>>
       ELSE IF r.when = "call"
            THEN /\ rdir' = CallFiles(rdir, r)
                 /\ test_errors' = test_errors
            ELSE /\ test_errors' = (test_errors \/ r.outcome = Failed)
                 /\ rdir' = rdir
    /\ UNCHANGED <<phase, config, results_dir, exitstatus, excluded, os_name>>
    /\ UNCHANGED <<fs, fs0, args, pc, paths, tmp, old, err, ctx>>

(***************************************************************************)
(* pytest_sessionfinish and its exclude-pattern list.                      *)
(***************************************************************************)
DEFAULT_EXCLUDE_LIST ==
    << "all: no cover", "if TYPE_CHECKING:", "@abstractmethod", "# os-specific",
       "defensive code", "assert_never()" >>
OsTuple == << "darwin", "linux", "solaris", "windows", "bsd", "aix" >>
OsNames == { OsTuple[k] : k \in 1..Len(OsTuple) }

\* Mutant: the current OS is not filtered out.
OsOnlyFrom_unfiltered(k, os) ==
    [j \in 1..Len(OsTuple) |-> OsTuple[j] \o "-only"]

\* "%s-only" % o for the o of OsTuple from position k on, o != os_name
RECURSIVE OsOnlyFrom(_, _)
OsOnlyFrom(k, os) ==
    IF k > Len(OsTuple) THEN <<>>
    ELSE IF OsTuple[k] # os
         THEN <<OsTuple[k] \o "-only">> \o OsOnlyFrom(k + 1, os)
         ELSE OsOnlyFrom(k + 1, os)

\* Mutant: the two branches exchanged.
PlatformPatterns_swapped(os) ==
    IF os # "windows"
    THEN << "if sys.platform != \"win32\":" >>
    ELSE << "if sys.platform == \"win32\":", "unix: no cover" >>

PlatformPatterns(os) ==
    IF os = "windows"
    THEN << "if sys.platform != \"win32\":" >>
    ELSE << "if sys.platform == \"win32\":", "unix: no cover" >>

\* The calls of cov.exclude, in order.
ExcludeList(os) ==
    DEFAULT_EXCLUDE_LIST \o OsOnlyFrom(1, os) \o PlatformPatterns(os)
        \o << os \o ": no cover" >>

\* os_name = Env().build.os.name, then the exclusions.
CoverageReport ==
    \E o \in OsNames :
       /\ os_name' = o
       /\ excluded' = excluded \o ExcludeList(o)
       /\ phase' = "finished"

SessionFinish ==
    /\ phase = "running"
    /\ IF ~config.e3
       THEN /\ phase' = "finished"
            /\ UNCHANGED <<exitstatus, excluded, os_name, pc>>
       ELSE /\ exitstatus' = (IF test_errors THEN 3 ELSE exitstatus)
            /\ IF ~config.cov_source
               THEN /\ phase' = "finished"
                    /\ UNCHANGED <<excluded, os_name, pc>>
               ELSE IF config.e3_cov_rewrite
                    THEN /\ phase' = "fix"
                         /\ pc' = [pc EXCEPT ![1] = "start"]
                         /\ UNCHANGED <<excluded, os_name>>
                    ELSE /\ CoverageReport
                         /\ pc' = pc
    /\ UNCHANGED <<config, results_dir, rdir, test_errors, rep, nreports, error_seen>>
    /\ UNCHANGED <<fs, fs0, args, paths, tmp, old, err, ctx>>

\* fix_coverage_paths has returned to pytest_sessionfinish, or raised.
SessionFixReturn ==
    /\ phase = "fix"
    /\ pc[1] = "done"
    /\ IF err[1] # "none"
       THEN /\ phase' = "raised"
            /\ UNCHANGED <<excluded, os_name>>
       ELSE CoverageReport
    /\ UNCHANGED <<config, results_dir, rdir, test_errors, exitstatus, rep, nreports,
                   error_seen>>
    /\ UNCHANGED <<fs, fs0, args, pc, paths, tmp, old, err, ctx>>

\* The options read by pytest_sessionfinish; the later ones are read only
\* when the earlier ones are set.
Configs ==
    { c \in [e3 : BOOLEAN, cov_source : BOOLEAN, e3_cov_rewrite : BOOLEAN] :
        /\ c.e3_cov_rewrite => c.cov_source
        /\ c.cov_source => c.e3 }
OldResults == <<"o", ":", "O", "K", "\n">>
SessionDb == Db([p \in {<<"a", "x">>} |-> {1}])
SessionDbs == { Absent, Corrupt, SessionDb }

Init ==
    /\ phase = "running"
    /\ config \in Configs
    /\ results_dir \in {"unset", "notdir", "dir"}
    /\ rdir \in IF results_dir = "dir"
                THEN {NoData, [n \in {ResultsFile} |-> OldResults]}
                ELSE {NoData}
    /\ test_errors = FALSE
    /\ exitstatus = 0
    /\ excluded = <<>>
    /\ os_name = "none"
    /\ rep = NoReport
    /\ nreports = 0
    /\ error_seen = FALSE
    /\ args = [i \in Procs |->
                 IF i = 1 THEN [origin_dir |-> <<"a">>, new_dir |-> <<"b">>, cov_db |-> "cov1"]
                 ELSE NoArgs]
    /\ \E c \in (IF config.e3_cov_rewrite THEN SessionDbs ELSE {SessionDb}) :
          fs = [p \in Paths |-> IF p = "cov1" THEN c ELSE Absent]
    /\ fs0 = fs
    /\ pc = [i \in Procs |-> "idle"]
    /\ FixLocals

Next ==
    \/ \E r \in Reports : MakeReport(r)
    \/ SessionFinish
    \/ SessionFixReturn
    \/ FixNext

Spec == Init /\ [][Next]_vars

(***************************************************************************)
(* Two calls of fix_coverage_paths in flight, on two databases of one      *)
(* directory.                                                              *)
(***************************************************************************)
ConcDbs == { Corrupt, SessionDb, Db([p \in {<<"b", "x">>} |-> {1}]) }

InitConc ==
    /\ args = [i \in Procs |->
                 [origin_dir |-> <<"a">>, new_dir |-> <<"b">>,
                  cov_db |-> IF i = 1 THEN "cov1" ELSE "cov2"]]
    /\ \E c1 \in ConcDbs, c2 \in ConcDbs :
          fs = [p \in Paths |-> IF p = "cov1" THEN c1 ELSE IF p = "cov2" THEN c2 ELSE Absent]
    /\ fs0 = fs
    /\ pc = [i \in Procs |-> "start"]
    /\ FixLocals
    /\ SessionOff

SpecConc == InitConc /\ [][FixNext]_vars

(***************************************************************************)
(* Claims about one call of fix_coverage_paths (SpecFix).                  *)
(***************************************************************************)
Origin == args[1].origin_dir
NewDir == args[1].new_dir
Returned == pc[1] = "done"
Succeeded == pc[1] = "done" /\ err[1] = "none"
InputIsDb == fs0["cov1"].kind = "db"
In0 == fs0["cov1"].data
Out == fs["cov1"]

\* id has the form origin_dir/x, and x is what follows origin_dir.
Rest(id) == SubSeq(id, Len(Origin) + 1, Len(id))
HasForm(id) == Rest(id) # <<>> /\ id = Origin \o Rest(id)
Image(id) == IF HasForm(id) THEN NewDir \o Rest(id) ELSE id
LinesInto(id) == UNION { In0[j] : j \in { k \in DOMAIN In0 : Image(k) = id } }

\* C1, as stated: after a successful call every input identifier
\* origin_dir/x is gone, new_dir/x is there with exactly the line records
\* origin_dir/x had, and cov_db is a loadable database.
C1_ExactRecords ==
    (Succeeded /\ InputIsDb) =>
        /\ Out.kind = "db"
        /\ \A id \in DOMAIN In0 :
              HasForm(id) =>
                 /\ Image(id) \in DOMAIN Out.data
                 /\ Out.data[Image(id)] = In0[id]
                 /\ id \notin DOMAIN Out.data

\* C1, amended: new_dir/x is there with the union of the line records of
\* every input identifier whose rewritten form is new_dir/x, origin_dir/x
\* remains only as the rewritten form of an input identifier, and cov_db is
\* a loadable database.
C1_MergedRecords ==
    (Succeeded /\ InputIsDb) =>
        /\ Out.kind = "db"
        /\ \A id \in DOMAIN In0 :
              HasForm(id) =>
                 /\ Image(id) \in DOMAIN Out.data
                 /\ Out.data[Image(id)] = LinesInto(Image(id))
                 /\ In0[id] \subseteq Out.data[Image(id)]
                 /\ (id \in DOMAIN Out.data => \E j \in DOMAIN In0 : Image(j) = id)

\* A successful call on a database that held both origin_dir/x and
\* new_dir/x, with different line records.
C1_Witness ==
    /\ Succeeded /\ InputIsDb
    /\ \E id \in DOMAIN In0 :
          /\ HasForm(id)
          /\ Image(id) # id
          /\ Image(id) \in DOMAIN In0
          /\ In0[Image(id)] # In0[id]

\* C2, as stated: after a successful call every input identifier that is
\* not under origin_dir is in the output with its line records unchanged,
\* also when the input holds an origin_dir/x whose rewritten form it is.
C2_Unchanged ==
    (Succeeded /\ InputIsDb) =>
        \A id \in DOMAIN In0 :
           ~HasForm(id) => (id \in DOMAIN Out.data /\ Out.data[id] = In0[id])

\* C2, amended: every input identifier not under origin_dir is in the
\* output; its line records are unchanged when no input identifier
\* origin_dir/x is rewritten to it, and else are the union of its own
\* records and those of the identifiers rewritten to it.
C2_UnchangedOrMerged ==
    (Succeeded /\ InputIsDb) =>
        \A id \in DOMAIN In0 :
           ~HasForm(id) =>
              /\ id \in DOMAIN Out.data
              /\ LET into == { j \in DOMAIN In0 : HasForm(j) /\ NewDir \o Rest(j) = id }
                 IN Out.data[id] = In0[id] \cup UNION { In0[j] : j \in into }

\* A successful call where an identifier outside origin_dir received lines
\* from an identifier rewritten to it.
C2_Witness ==
    /\ Succeeded /\ InputIsDb
    /\ \E id \in DOMAIN In0, j \in DOMAIN In0 :
          /\ ~HasForm(id)
          /\ HasForm(j)
          /\ NewDir \o Rest(j) = id
          /\ ~(In0[j] \subseteq In0[id])

\* C3: when the call has ended, normally or by an exception raised while
\* moving, loading, merging or writing, no temporary file is on disk.
C3_NoTempLeft ==
    Returned => (tmp[1] \in TmpNames /\ \A n \in TmpNames : fs[n].kind = "absent")

\* The call ended by an exception raised while writing the new database.
C3_Witness == Returned /\ "write" \in {err[1], ctx[1]}

\* C4, as stated: when the database cannot be moved aside the call fails,
\* the directory is as it was before the call, and the error the caller
\* gets is the move failure.
MoveFailed == "mv" \in {err[1], ctx[1]}
C4_MoveFailureReported ==
    (Returned /\ MoveFailed) => (fs = fs0 /\ err[1] = "mv")

\* C5: when the move succeeds and the moved-aside database cannot be
\* parsed, the call fails with the parse error, the temporary file is
\* deleted, and no file holds the original content any more.
C5_ParseFailureLosesData ==
    (Returned /\ fs0["cov1"].kind = "corrupt" /\ ~MoveFailed) =>
        /\ err[1] = "parse"
        /\ ctx[1] = "none"
        /\ fs[tmp[1]].kind = "absent"
        /\ \A p \in Paths : fs[p] # fs0["cov1"]

\* The call ended on a corrupt database that had been moved aside.
C5_Witness ==
    Returned /\ fs0["cov1"].kind = "corrupt" /\ ~MoveFailed /\ err[1] = "parse"

(***************************************************************************)
(* Claims about concurrent calls (SpecConc).                               *)
(***************************************************************************)
\* The invocation holds its temporary name: the name is chosen and the
\* call has not ended.
UsesTmp(i) == pc[i] \in {"close", "mv", "read", "update", "unlink"}

\* C9: two concurrent invocations on different databases of one directory
\* never use the same temporary file name, so neither moves its database
\* onto, reads or deletes the other's moved-aside file.
C9_DistinctTmpNames ==
    \A i \in Procs, j \in Procs :
       (i # j /\ UsesTmp(i) /\ UsesTmp(j)) => tmp[i] # tmp[j]

(***************************************************************************)
(* Claims about the session hooks (Spec).                                  *)
(***************************************************************************)
Range(q) == { q[k] : k \in 1..Len(q) }
ExcludeListBuilt == phase = "finished" /\ os_name \in OsNames

\* C6: for every current OS of the six, the exclude list holds "x-only"
\* for each of the five other OS names x and never "<current>-only"; for
\* linux these are darwin-only, windows-only, solaris-only, bsd-only and
\* aix-only.
C6_OtherOsOnly ==
    ExcludeListBuilt =>
        /\ \A x \in {"darwin", "linux", "solaris", "windows", "bsd", "aix"} :
              (x \o "-only" \in Range(excluded)) <=> (x # os_name)
        /\ os_name = "linux" =>
              /\ { "darwin-only", "windows-only", "solaris-only", "bsd-only",
                   "aix-only" } \subseteq Range(excluded)
              /\ "linux-only" \notin Range(excluded)

\* The exclude list was built on linux.
C6_Witness ==
    ExcludeListBuilt /\ os_name = "linux" /\ "aix-only" \in Range(excluded)

\* C7: on windows the list holds 'if sys.platform != "win32":' and not
\* "unix: no cover"; on every other OS it holds "unix: no cover" and
\* 'if sys.platform == "win32":' and not 'if sys.platform != "win32":'.
\* In both cases it holds every marker of DEFAULT_EXCLUDE_LIST and
\* "<current os>: no cover".
C7_PlatformMarkers ==
    ExcludeListBuilt =>
        /\ os_name = "windows" =>
              /\ "if sys.platform != \"win32\":" \in Range(excluded)
              /\ "unix: no cover" \notin Range(excluded)
        /\ os_name # "windows" =>
              /\ "unix: no cover" \in Range(excluded)
              /\ "if sys.platform == \"win32\":" \in Range(excluded)
              /\ "if sys.platform != \"win32\":" \notin Range(excluded)
        /\ { "all: no cover", "if TYPE_CHECKING:", "@abstractmethod", "# os-specific",
             "defensive code", "assert_never()" } \subseteq Range(excluded)
        /\ os_name \o ": no cover" \in Range(excluded)

\* The exclude list was built on windows.
C7_Witness ==
    ExcludeListBuilt /\ os_name = "windows" /\ "windows: no cover" \in Range(excluded)

\* C8: in a session with the e3 option, once pytest_sessionfinish has set
\* the exit status, it is 3 if any setup or teardown report had outcome
\* "failed", whatever RESULTS_DIR names.
C8_ErrorGivesExit3 ==
    (phase \in {"fix", "finished", "raised"} /\ config.e3 /\ error_seen)
        => exitstatus = 3

\* Every file of the results directory other than the named ones is as
\* it was.
OthersKept(names) ==
    /\ DOMAIN rdir' \ names = DOMAIN rdir \ names
    /\ \A n \in DOMAIN rdir \ names : rdir'[n] = rdir[n]

\* C10: with RESULTS_DIR an existing directory, a "call" report appends
\* exactly its line "<test_name>:<OUTCOME>" to the results file, keeping
\* the earlier lines, and writes "<test_name>.diff" exactly when it has
\* long text; a setup or teardown report writes nothing, and with
\* RESULTS_DIR unset or not a directory no report writes any file.
C10_ResultFiles ==
    [][ nreports' = nreports + 1 =>
          IF results_dir = "dir" /\ rep'.when = "call"
          THEN LET before == IF ResultsFile \in DOMAIN rdir THEN rdir[ResultsFile] ELSE <<>>
                   name == TestName(rep'.nodeid)
               IN /\ ResultsFile \in DOMAIN rdir'
                  /\ rdir'[ResultsFile] =
                        before \o name \o <<":">> \o Upper(rep'.outcome) \o <<"\n">>
                  /\ "/" \notin Range(name)
                  /\ IF rep'.longreprtext # ""
                     THEN /\ DiffFile(name) \in DOMAIN rdir'
                          /\ rdir'[DiffFile(name)] = rep'.longreprtext
                          /\ OthersKept({ResultsFile, DiffFile(name)})
                     ELSE OthersKept({ResultsFile})
          ELSE rdir' = rdir ]_vars

\* Two "call" reports were written after an earlier line, the second with
\* a diff file.
C10_Witness ==
    /\ results_dir = "dir"
    /\ nreports = 2
    /\ rep.when = "call"
    /\ DiffFile(TestName(rep.nodeid)) \in DOMAIN rdir
    /\ ResultsFile \in DOMAIN rdir
    /\ Len(rdir[ResultsFile]) > Len(OldResults) + Len(ResultLine(rep))
    /\ SubSeq(rdir[ResultsFile], 1, Len(OldResults)) = OldResults

====
